---- MODULE Spec2Model ----
(***************************************************************************)
(* Appointment chatbot (python-service/chatbot_service.py): the keyword    *)
(* gate, the detail parser and the date/time extractor of                  *)
(* AppointmentChatbot, as a state machine over text, a clock and the       *)
(* appointments table; and the /chat handler of python-service/app.py     *)
(* with the chat_messages and chat_sessions tables it reads and writes.    *)
(*                                                                         *)
(* Text is a TLA+ string; substring tests and the three regular           *)
(* expressions are computed character by character.  A datetime is a       *)
(* record [day, hour, minute]: day counts calendar days from a Monday      *)
(* (day 0), so timedelta(days=k) is day + k and weekday() is day % 7.      *)
(* Seconds and microseconds are not kept: every datetime the parser        *)
(* returns has them set to 0 by replace().                                 *)
(***************************************************************************)
EXTENDS Integers, Sequences, FiniteSets, TLC

VARIABLES
    clock,          \* what datetime.now() returns next
    appointments,   \* rows of table appointments, in insertion order
    user_message,   \* the user text of the last call
    bot_response,   \* the assistant reply of the last call
    reads,          \* the values datetime.now() returned inside _parse_date_time
    parsed,         \* outcome of _parse_date_time in the last call
    draft,          \* what _parse_appointment_details returned in the last call
    created,        \* what _create_appointment returned in the last call
    response,       \* what process_message returned
    pc,             \* "idle", or "done" while the caller holds the last call's result
    chat_messages,  \* rows of table chat_messages, in insertion order
    chat_sessions,  \* table chat_sessions: session id -> its appointment_id column
    session_id,     \* the session id of the call being served, 0 when there is none
    history,        \* what get_conversation_history returned in the call being served
    updated,        \* the arguments update_session_appointment was called with
    reply           \* what the /chat handler answered: status and JSON body

\* the state of app.py
chatVars == <<chat_messages, chat_sessions, session_id, history, updated, reply>>

vars == <<clock, appointments, user_message, bot_response, reads, parsed,
          draft, created, response, pc, chat_messages, chat_sessions,
          session_id, history, updated, reply>>

------------------------------------------------------------------------------
(* Bounds of the model *)

MaxWords == 2

MaxDay == 2

MaxAppointments == 2

\* rows of chat_messages one session may hold, and the rows every other session
\* may hold
MaxRows == 22

MaxOtherRows == 1

\* requests the /chat handler serves before the tables are full
MaxTurns == 2

------------------------------------------------------------------------------
(* Python values *)

None == [tag |-> "None"]

NotCalled == [tag |-> "NotCalled"]

------------------------------------------------------------------------------
(* Strings *)

UpperCase == <<"A","B","C","D","E","F","G","H","I","J","K","L","M",
               "N","O","P","Q","R","S","T","U","V","W","X","Y","Z">>

LowerCase == <<"a","b","c","d","e","f","g","h","i","j","k","l","m",
               "n","o","p","q","r","s","t","u","v","w","x","y","z">>

Digits == <<"0","1","2","3","4","5","6","7","8","9">>

\* s[i] as a one-character string, "" when i is outside s
Ch(s, i) == IF i >= 1 /\ i <= Len(s) THEN SubSeq(s, i, i) ELSE ""

UpperLetters == {UpperCase[i] : i \in 1..26}

LowerChar(c) ==
    IF c \in UpperLetters
    THEN LowerCase[CHOOSE i \in 1..26 : UpperCase[i] = c]
    ELSE c

RECURSIVE LowerFrom(_, _)
LowerFrom(s, i) == IF i > Len(s) THEN "" ELSE LowerChar(Ch(s, i)) \o LowerFrom(s, i + 1)

\* str.lower()
Lower(s) == LowerFrom(s, 1)

\* k in s
Contains(s, k) == \E i \in 1..(Len(s) - Len(k) + 1) : SubSeq(s, i, i + Len(k) - 1) = k

\* any(keyword in s for keyword in keywords)
AnyIn(keywords, s) == \E j \in 1..Len(keywords) : Contains(s, keywords[j])

DigitChars == {Digits[i] : i \in 1..10}

IsDigit(c) == c \in DigitChars

DigitVal(c) == (CHOOSE i \in 1..10 : Digits[i] = c) - 1

\* int() of a string of one or two digits
ToInt(d) == IF Len(d) = 1 THEN DigitVal(d) ELSE 10 * DigitVal(Ch(d, 1)) + DigitVal(Ch(d, 2))

\* \s
IsSpace(c) == c \in {" ", "\t", "\n", "\r", "\f"}

\* the position after \s* has taken every whitespace character from p on
SkipSpaces(s, p) == CHOOSE q \in p..(Len(s) + 1) :
                        /\ \A j \in p..(q - 1) : IsSpace(Ch(s, j))
                        /\ ~IsSpace(Ch(s, q))

Min(S) == CHOOSE x \in S : \A y \in S : x <= y

\* s[p:] starts with k
StartsWithAt(s, p, k) == p + Len(k) - 1 <= Len(s) /\ SubSeq(s, p, p + Len(k) - 1) = k

------------------------------------------------------------------------------
(* datetime *)

\* datetime.weekday(): Monday is 0
weekday(dt) == dt.day % 7

\* dt + timedelta(days=k)
PlusDays(dt, k) == [dt EXCEPT !.day = @ + k]

\* dt.replace(hour=h, minute=m, second=0, microsecond=0)
Replace(dt, h, m) == [day |-> dt.day, hour |-> h, minute |-> m]

\* replace() raises ValueError outside these ranges
ValidTime(h, m) == h \in 0..23 /\ m \in 0..59

\* minutes since day 0, 00:00: the order of datetimes
Minutes(dt) == (dt.day * 24 + dt.hour) * 60 + dt.minute

\* datetime.isoformat(): the date, then T, then HH:MM:SS with the seconds 0
isoformat(dt) == [date |-> dt.day, T |-> <<dt.hour, dt.minute, 0>>]

------------------------------------------------------------------------------
(* _parse_date_time: the base date *)

days_of_week == <<"monday", "tuesday", "wednesday", "thursday", "friday",
                  "saturday", "sunday">>

\* the day names of the dictionary, by position, that occur in the text
MatchingDays(ml) == {i \in 1..7 : Contains(ml, days_of_week[i])}

\* how many times the call reads datetime.now(): line 216, line 221 or 225,
\* lines 236 and 239
NumReads(user_message_) ==
    LET ml == Lower(user_message_)
    IN  1 + (IF Contains(ml, "today") \/ Contains(ml, "tomorrow") THEN 1 ELSE 0)
          + (IF MatchingDays(ml) # {} THEN 2 ELSE 0)

\* BaseDate with the test of line 237 written days_ahead < 0: a day name equal
\* to today's resolves to today
BaseDate_SameDay(ml, r) ==
    LET word == Contains(ml, "today") \/ Contains(ml, "tomorrow")
        byWord == IF Contains(ml, "today") THEN Replace(r[2], 10, 0)
                  ELSE IF Contains(ml, "tomorrow") THEN Replace(PlusDays(r[2], 1), 10, 0)
                  ELSE Replace(PlusDays(r[1], 1), 10, 0)
        k    == IF word THEN 2 ELSE 1
        days == MatchingDays(ml)
    IN  IF days = {} THEN byWord
        ELSE LET diff == (Min(days) - 1) - weekday(r[k + 1])
             IN  Replace(PlusDays(r[k + 2], IF diff < 0 THEN diff + 7 ELSE diff), 10, 0)

\* BaseDate with the default of line 216 written without the timedelta
BaseDate_DefaultToday(ml, r) ==
    LET word == Contains(ml, "today") \/ Contains(ml, "tomorrow")
        byWord == IF Contains(ml, "today") THEN Replace(r[2], 10, 0)
                  ELSE IF Contains(ml, "tomorrow") THEN Replace(PlusDays(r[2], 1), 10, 0)
                  ELSE Replace(r[1], 10, 0)
        k    == IF word THEN 2 ELSE 1
        days == MatchingDays(ml)
    IN  IF days = {} THEN byWord
        ELSE LET diff == (Min(days) - 1) - weekday(r[k + 1])
             IN  Replace(PlusDays(r[k + 2], IF diff <= 0 THEN diff + 7 ELSE diff), 10, 0)

\* lines 215-241; r is the sequence of values datetime.now() returns
BaseDate(ml, r) ==
    LET default == Replace(PlusDays(r[1], 1), 10, 0)
        word    == Contains(ml, "today") \/ Contains(ml, "tomorrow")
        byWord  == IF Contains(ml, "today") THEN Replace(r[2], 10, 0)
                   ELSE IF Contains(ml, "tomorrow") THEN Replace(PlusDays(r[2], 1), 10, 0)
                   ELSE default
        k       == IF word THEN 2 ELSE 1
        days    == MatchingDays(ml)
    IN  IF days = {} THEN byWord
        ELSE LET day_num == Min(days) - 1
                 diff    == day_num - weekday(r[k + 1])
                 days_ahead == IF diff <= 0 THEN diff + 7 ELSE diff
             IN  Replace(PlusDays(r[k + 2], days_ahead), 10, 0)

------------------------------------------------------------------------------
(* _parse_date_time: the clock time *)

\* what follows (\d{1,2}) in each pattern, tested at position j
\* :(\d{2})
ColonMinutes(s, j) == Ch(s, j) = ":" /\ IsDigit(Ch(s, j + 1)) /\ IsDigit(Ch(s, j + 2))

\* \s*(am|pm) at p: the word matched, "" when neither matches
AmPmAt(s, p) ==
    LET q == SkipSpaces(s, p)
    IN  IF StartsWithAt(s, q, "am") THEN "am"
        ELSE IF StartsWithAt(s, q, "pm") THEN "pm"
        ELSE ""

\* \s*o\'?clock at p: the length of o'clock or oclock, 0 when neither matches
OClockAt(s, p) ==
    LET q == SkipSpaces(s, p)
    IN  IF StartsWithAt(s, q, "o'clock") THEN 7
        ELSE IF StartsWithAt(s, q, "oclock") THEN 6
        ELSE 0

\* the tail of time_patterns[p], tested at position j
TailAt(s, j, p) ==
    CASE p = 1 -> ColonMinutes(s, j)
      [] p = 2 -> AmPmAt(s, j) # ""
      [] p = 3 -> OClockAt(s, j) # 0

\* (\d{1,2}) at i followed by the pattern's tail: 2 digits if that matches
\* (greedy), else 1 digit, else 0 (no match at i)
HourLen(s, i, p) ==
    IF IsDigit(Ch(s, i)) /\ IsDigit(Ch(s, i + 1)) /\ TailAt(s, i + 2, p) THEN 2
    ELSE IF IsDigit(Ch(s, i)) /\ TailAt(s, i + 1, p) THEN 1
    ELSE 0

\* re.search: the leftmost position where time_patterns[p] matches, 0 when none
SearchPos(s, p) ==
    LET P == {i \in 1..Len(s) : HourLen(s, i, p) > 0}
    IN  IF P = {} THEN 0 ELSE Min(P)

NoMatch == [group0 |-> "", groups |-> << >>]

\* the match of r'(\d{1,2}):(\d{2})\s*(am|pm)?' at i with an hour of n digits:
\* a is what (am|pm)? matched, q where \s* ended
Match1(s, i, n, a, q) ==
    [group0 |-> SubSeq(s, i, IF a = "" THEN q - 1 ELSE q + 1),
     groups |-> <<SubSeq(s, i, i + n - 1), SubSeq(s, i + n + 1, i + n + 2), a>>]

\* the match of r'(\d{1,2})\s*(am|pm)' at i
Match2(s, i, n, a, q) ==
    [group0 |-> SubSeq(s, i, q + 1),
     groups |-> <<SubSeq(s, i, i + n - 1), a>>]

\* the match of r'(\d{1,2})\s*o\'?clock' at i: a is the length of o'clock or oclock
Match3(s, i, n, a, q) ==
    [group0 |-> SubSeq(s, i, q + a - 1),
     groups |-> <<SubSeq(s, i, i + n - 1)>>]

\* the match of time_patterns[p] at position i, its hour n digits long
MatchLen(s, i, n, p) ==
    CASE p = 1 -> Match1(s, i, n, AmPmAt(s, i + n + 3), SkipSpaces(s, i + n + 3))
      [] p = 2 -> Match2(s, i, n, AmPmAt(s, i + n), SkipSpaces(s, i + n))
      [] p = 3 -> Match3(s, i, n, OClockAt(s, i + n), SkipSpaces(s, i + n))

MatchAt(s, i, p) == IF i = 0 THEN NoMatch ELSE MatchLen(s, i, HourLen(s, i, p), p)

\* re.search(time_patterns[p], s)
Search(s, p) == MatchAt(s, SearchPos(s, p), p)

\* FirstOf with time_patterns listing H am/pm before H:MM
FirstOf_AmPmFirst(m1, m2, m3) == IF m2 # NoMatch THEN m2 ELSE IF m1 # NoMatch THEN m1 ELSE m3

\* line 250: the first of the three matches that is one
FirstOf(m1, m2, m3) == IF m1 # NoMatch THEN m1 ELSE IF m2 # NoMatch THEN m2 ELSE m3

\* the match of the first pattern of time_patterns, in list order, that
\* re.search finds in s
FirstMatch(s) == FirstOf(Search(s, 1), Search(s, 2), Search(s, 3))

\* lines 262-267: the hour in 24-hour form
Hour24(hour, ampm) ==
    IF ampm = "pm" /\ hour # 12 THEN hour + 12
    ELSE IF ampm = "am" /\ hour = 12 THEN 0
    ELSE hour

\* lines 253-267: hour and minute of a match
MatchTime(match) ==
    IF Contains(match.group0, ":")
    THEN [hour   |-> Hour24(ToInt(match.groups[1]),
                            IF Len(match.groups) > 2 THEN match.groups[3] ELSE ""),
          minute |-> ToInt(match.groups[2])]
    ELSE [hour   |-> Hour24(ToInt(match.groups[1]),
                            IF Len(match.groups) > 1 THEN match.groups[2] ELSE ""),
          minute |-> 0]

------------------------------------------------------------------------------
(* _parse_date_time *)

\* lines 272-278: the time-of-day words
TimeOfDay(ml, dt) ==
    IF Contains(ml, "morning") THEN Replace(dt, 9, 0)
    ELSE IF Contains(ml, "afternoon") THEN Replace(dt, 14, 0)
    ELSE IF Contains(ml, "evening") THEN Replace(dt, 18, 0)
    ELSE dt

\* lines 250-280, given the base date, the match and its time t.  raised:
\* replace() at line 269 raised ValueError, which nothing here catches;
\* base: base_date after line 241; time: hour and minute after line 267, None
\* when no pattern matched; value: what is returned
Finish(ml, base, match, t) ==
    IF match = NoMatch
    THEN [raised |-> FALSE, base |-> base, time |-> None,
          value |-> isoformat(TimeOfDay(ml, base))]
    ELSE IF ~ValidTime(t.hour, t.minute)
    THEN [raised |-> TRUE, base |-> base, time |-> t, value |-> None]
    ELSE [raised |-> FALSE, base |-> base, time |-> t,
          value |-> isoformat(TimeOfDay(ml, Replace(base, t.hour, t.minute)))]

WithMatch(ml, base, match) == Finish(ml, base, match, MatchTime(match))

ParseLower(message_lower, r) ==
    WithMatch(message_lower, BaseDate(message_lower, r), FirstMatch(message_lower))

\* lines 208-280; r is the sequence of values datetime.now() returns
_parse_date_time(user_message_, r) == ParseLower(Lower(user_message_), r)

------------------------------------------------------------------------------
(* _extract_appointment_data and _parse_appointment_details *)

appointment_keywords == <<"schedule", "book", "appointment", "meeting", "consultation",
                          "checkup", "visit", "session", "reservation",
                          "make an appointment">>

confirmation_keywords == <<"scheduled", "booked", "confirmed", "appointment created",
                           "i've scheduled", "your appointment is", "appointment has been",
                           "i'll schedule", "let me schedule", "i can schedule">>

detail_keywords == <<"tomorrow", "today", "next week", "monday", "tuesday", "wednesday",
                     "thursday", "friday", "saturday", "sunday", "am", "pm", "morning",
                     "afternoon", "evening", "medical", "consultation", "checkup">>

\* line 128: the user text holds a scheduling keyword
Gate(user_message_) == AnyIn(appointment_keywords, Lower(user_message_))

\* line 145
has_details(user_message_) == AnyIn(detail_keywords, Lower(user_message_))

\* line 146
bot_confirms(bot_response_) == AnyIn(confirmation_keywords, Lower(bot_response_))

\* ShouldCreate with line 149 testing has_details alone
ShouldCreate_DetailsOnly(user_message_, bot_response_) ==
    Gate(user_message_) /\ has_details(user_message_)

\* ShouldCreate without the early return of lines 128-129
ShouldCreate_NoGate(user_message_, bot_response_) ==
    has_details(user_message_) \/ bot_confirms(bot_response_)

\* lines 128 and 149: _parse_appointment_details is called
ShouldCreate(user_message_, bot_response_) ==
    Gate(user_message_) /\ (has_details(user_message_) \/ bot_confirms(bot_response_))

\* TypeAndTitle with the consultation test placed before the medical one
TypeAndTitle_ConsultationFirst(user_message_) ==
    LET ml == Lower(user_message_)
    IN  IF AnyIn(<<"consultation", "consult">>, ml)
        THEN [appointment_type |-> "consultation", title |-> "Consultation"]
        ELSE IF AnyIn(<<"medical", "doctor", "checkup", "health">>, ml)
        THEN [appointment_type |-> "medical", title |-> "Medical Appointment"]
        ELSE IF AnyIn(<<"follow", "follow-up">>, ml)
        THEN [appointment_type |-> "follow-up", title |-> "Follow-up Appointment"]
        ELSE [appointment_type |-> "general", title |-> "Appointment"]

\* lines 170-187: appointment_type and title
TypeAndTitle(user_message_) ==
    LET ml == Lower(user_message_)
    IN  IF AnyIn(<<"medical", "doctor", "checkup", "health">>, ml)
        THEN [appointment_type |-> "medical", title |-> "Medical Appointment"]
        ELSE IF AnyIn(<<"consultation", "consult">>, ml)
        THEN [appointment_type |-> "consultation", title |-> "Consultation"]
        ELSE IF AnyIn(<<"follow", "follow-up">>, ml)
        THEN [appointment_type |-> "follow-up", title |-> "Follow-up Appointment"]
        ELSE [appointment_type |-> "general", title |-> "Appointment"]

\* lines 173 and 192-200: duration_minutes
Duration(user_message_) ==
    LET ml == Lower(user_message_)
    IN  IF Contains(ml, "30 minutes") \/ Contains(ml, "half hour") THEN 30
        ELSE IF Contains(ml, "45 minutes") THEN 45
        ELSE IF Contains(ml, "90 minutes") \/ Contains(ml, "1.5 hours") THEN 90
        ELSE IF Contains(ml, "2 hours") \/ Contains(ml, "120 minutes") THEN 120
        ELSE 60

\* lines 165-206: the draft, or None when _parse_date_time raised (line 204)
\* Details without the except of line 204 discarding the draft: the draft
\* built so far is returned with no appointment_date
Details_KeepsPartial(user_message_, tt, dt) ==
    [title            |-> tt.title,
     description      |-> user_message_,
     appointment_type |-> tt.appointment_type,
     duration_minutes |-> Duration(user_message_),
     location         |-> None,
     notes            |-> None,
     appointment_date |-> dt.value]

\* lines 169-206, given the type and title and the outcome of _parse_date_time:
\* the draft, or None when _parse_date_time raised (line 204)
Details(user_message_, tt, dt) ==
    IF dt.raised THEN None
    ELSE [title            |-> tt.title,
          description      |-> user_message_,
          appointment_type |-> tt.appointment_type,
          duration_minutes |-> Duration(user_message_),
          location         |-> None,
          notes            |-> None,
          appointment_date |-> dt.value]

_parse_appointment_details(user_message_, bot_response_, r) ==
    Details(user_message_, TypeAndTitle(user_message_), _parse_date_time(user_message_, r))

\* line 156: appointment_data['id'] = appointment_id
WithId(d, appointment_id) ==
    [title            |-> d.title,
     description      |-> d.description,
     appointment_type |-> d.appointment_type,
     duration_minutes |-> d.duration_minutes,
     location         |-> d.location,
     notes            |-> d.notes,
     appointment_date |-> d.appointment_date,
     id               |-> appointment_id]

\* lines 295-310: the row INSERTed; of its columns the table of the model keeps
\* the key, the owner and the status
Row(appointment_id, user_id, d) ==
    [id |-> appointment_id, user_id |-> user_id, status |-> "pending"]

------------------------------------------------------------------------------
(* app.py: the chat_messages table *)

\* LIMIT 20 of the SELECT of get_conversation_history
HistoryLimit == 20

\* WHERE session_id = %s
WhereSession(rows, s) == SelectSeq(rows, LAMBDA m : m.session_id = s)

\* ORDER BY created_at ASC
OrderByCreatedAtAsc(rows) == SortSeq(rows, LAMBDA a, b : a.created_at < b.created_at)

\* LIMIT n
Limit(rows, n) == SubSeq(rows, 1, IF Len(rows) < n THEN Len(rows) ELSE n)

\* SELECT message_type, content, created_at
SelectColumns(rows) ==
    [i \in 1..Len(rows) |-> [message_type |-> rows[i].message_type,
                             content      |-> rows[i].content,
                             created_at   |-> rows[i].created_at]]

\* get_conversation_history(session_id) on the table rows; db_ok is whether the
\* connection and the query succeed: line 121 returns [] when they do not
get_conversation_history(rows, s, db_ok) ==
    IF db_ok
    THEN SelectColumns(Limit(OrderByCreatedAtAsc(WhereSession(rows, s)), HistoryLimit))
    ELSE << >>

\* store_message: the table after the INSERT; created_at is the column's
\* default, later for every later row; line 138 leaves the table as it was
\* when the INSERT fails
store_message(rows, s, message_type, content, db_ok) ==
    IF db_ok
    THEN Append(rows, [session_id   |-> s,
                       message_type |-> message_type,
                       content      |-> content,
                       created_at   |-> Len(rows) + 1])
    ELSE rows

\* dict.get(k)
Get(d, k) == IF k \in DOMAIN d THEN d[k] ELSE None

\* the test  if d.get(k):  for an entry that is a bool when present
GetFlag(d, k) == k \in DOMAIN d /\ d[k]

\* line 66: all([message, session_id, user_id])
AllPresent(data) == data.message # "" /\ data.sessionId # 0 /\ data.userId # 0

\* update_session_appointment: the chat_sessions table after the UPDATE of
\* lines 147-151; line 157 leaves it as it was when the UPDATE fails
update_session_appointment(sessions, s, appointment_id, db_ok) ==
    IF db_ok /\ s \in DOMAIN sessions
    THEN [sessions EXCEPT ![s] = appointment_id]
    ELSE sessions

------------------------------------------------------------------------------
(* The clock and the inputs *)

\* one minute later
NextMinute(dt) ==
    IF dt.minute < 59 THEN [dt EXCEPT !.minute = @ + 1]
    ELSE IF dt.hour < 23 THEN [dt EXCEPT !.hour = @ + 1, !.minute = 0]
    ELSE [day |-> dt.day + 1, hour |-> 0, minute |-> 0]

\* the values n successive datetime.now() calls may return, the first being c:
\* between two reads the clock stands or passes to the next minute
RECURSIVE ReadChains(_, _)
ReadChains(c, n) ==
    IF n = 0 THEN {<< >>}
    ELSE {<<c>> \o t : t \in ReadChains(c, n - 1) \cup ReadChains(NextMinute(c), n - 1)}

ClockTimes == {<<9, 0>>, <<15, 0>>, <<23, 59>>}

Instants == {[day |-> d, hour |-> t[1], minute |-> t[2]] : d \in 0..MaxDay, t \in ClockTimes}

\* the texts of 1..n words of W, joined by single spaces
RECURSIVE Sentences(_, _)
Sentences(W, n) ==
    IF n = 1 THEN W
    ELSE Sentences(W, n - 1) \cup {t \o " " \o w : t \in Sentences(W, n - 1), w \in W}

ParseWords == {"Today", "tomorrow", "monday", "Wednesday",
               "3pm", "12am", "12 PM", "14:30", "2:30 pm", "9 o'clock",
               "13pm", "2:75",
               "morning", "afternoon", "evening"}

ParseTexts == Sentences(ParseWords, MaxWords)

ChatWords == {"book", "I want to book a checkup", "Consultation", "follow-up",
              "today", "45 minutes", "25:00", "just checking in"}

ChatTexts == Sentences(ChatWords, MaxWords)

Replies == {"ok", "Your appointment has been confirmed for Friday"}

UserIds == {7}

\* ids of the rows of chat_sessions
Sessions == {1, 2}

\* session_id while no request is being served
NoSession == 0

\* the rows of chat_messages a session may hold: session 1 is the long
\* conversation
RowBound(s) == IF s = 1 THEN MaxRows ELSE MaxOtherRows

\* turn-taking: a session's rows alternate user, bot
NextType(rows, s) == IF Len(WhereSession(rows, s)) % 2 = 0 THEN "user" ELSE "bot"

Contents == {"hi"}

\* the JSON bodies POSTed to /chat: a field may be missing or empty
ChatRequests == {[message |-> m, sessionId |-> s, userId |-> u] :
                    m \in ChatWords \cup {""}, s \in Sessions \cup {0}, u \in UserIds \cup {0}}

------------------------------------------------------------------------------------------------------------------------------------------------------
(* The state machine *)

Init ==
    /\ clock = [day |-> 0, hour |-> 9, minute |-> 0]
    /\ appointments = << >>
    /\ user_message = ""
    /\ bot_response = ""
    /\ reads = << >>
    /\ parsed = NotCalled
    /\ draft = NotCalled
    /\ created = NotCalled
    /\ response = NotCalled
    /\ pc = "idle"
    /\ chat_messages = << >>
    /\ chat_sessions = [s \in Sessions |-> None]
    /\ session_id = NoSession
    /\ history = << >>
    /\ updated = NotCalled
    /\ reply = NotCalled

\* time passes between calls
Tick ==
    /\ pc = "idle"
    /\ \E c \in Instants : Minutes(c) > Minutes(clock) /\ clock' = c
    /\ UNCHANGED <<appointments, user_message, bot_response, reads, parsed, draft,
                   created, response, pc>>
    /\ UNCHANGED chatVars

\* the caller is done with the result of the last call
Return ==
    /\ pc = "done"
    /\ pc' = "idle"
    /\ user_message' = ""
    /\ bot_response' = ""
    /\ reads' = << >>
    /\ parsed' = NotCalled
    /\ draft' = NotCalled
    /\ created' = NotCalled
    /\ response' = NotCalled
    /\ session_id' = NoSession
    /\ history' = << >>
    /\ updated' = NotCalled
    /\ reply' = NotCalled
    /\ UNCHANGED <<clock, appointments, chat_messages, chat_sessions>>

\* a call of _parse_date_time(text)
ParseDateTime ==
    /\ pc = "idle"
    /\ clock \in Instants
    /\ \E text \in ParseTexts :
        \E r \in ReadChains(clock, NumReads(text)) :
            /\ user_message' = text
            /\ reads' = r
            /\ parsed' = _parse_date_time(text, r)
            /\ clock' = r[Len(r)]
    /\ pc' = "done"
    /\ UNCHANGED <<appointments, bot_response, draft, created, response>>
    /\ UNCHANGED chatVars

\* lines 104-116 of process_message: the language model raised
process_message_fails(message) ==
    /\ user_message' = message
    /\ response' = [message  |-> "I apologize, but I'm experiencing some technical difficulties. Error: ",
                    metadata |-> [error |-> "processing_error", timestamp |-> clock]]
    /\ UNCHANGED <<clock, appointments, bot_response, reads, parsed, draft, created>>

\* process_message, lines 54-116, when the language model raises: line 105
ProcessMessageFails ==
    /\ pc = "idle"
    /\ clock \in Instants
    /\ Len(appointments) < MaxAppointments
    /\ \E message \in ChatTexts : process_message_fails(message)
    /\ pc' = "done"
    /\ UNCHANGED chatVars

\* lines 93-98: the metadata of the reply; data is what
\* _extract_appointment_data returned
Metadata(user_id, now, message, response_text, data) ==
    IF data # None
    THEN [user_id |-> user_id, timestamp |-> now,
          message_length |-> Len(message),
          response_length |-> Len(response_text),
          appointment_data |-> data,
          appointment_created |-> TRUE,
          appointment_id |-> data.id]
    ELSE [user_id |-> user_id, timestamp |-> now,
          message_length |-> Len(message),
          response_length |-> Len(response_text),
          appointment_created |-> FALSE]

\* Extracted returning the draft also when _create_appointment returned None
Extracted_IgnoresFailure(d, c) ==
    IF d \in {NotCalled, None} THEN None
    ELSE IF c = None THEN WithId(d, None)
    ELSE WithId(d, c.id)

\* lines 152-159: what _extract_appointment_data returns, given the draft d and
\* what _create_appointment returned: the draft with its id, or None
Extracted(d, c) ==
    IF c \in {NotCalled, None} THEN None ELSE WithId(d, c.id)

\* process_message, lines 54-103, with _extract_appointment_data (118-163) and
\* _create_appointment (282-322): response_text is the model's reply, db_ok is
\* whether the INSERT succeeds; the id is the next of the table's sequence
process_message(message, user_id, response_text) ==
    \E r \in ReadChains(clock, IF ShouldCreate(message, response_text)
                               THEN NumReads(message) ELSE 0) :
        /\ user_message' = message
        /\ bot_response' = response_text
        /\ reads' = r
        /\ clock' = IF r = << >> THEN clock ELSE r[Len(r)]
        /\ draft' = IF ShouldCreate(message, response_text)
                    THEN _parse_appointment_details(message, response_text, r)
                    ELSE NotCalled
        /\ \E db_ok \in BOOLEAN :
            created' = IF draft' \in {NotCalled, None} THEN NotCalled
                       ELSE IF db_ok THEN [id |-> Len(appointments) + 1]
                       ELSE None
        /\ appointments' = IF created' \in {NotCalled, None} THEN appointments
                           ELSE Append(appointments, Row(created'.id, user_id, draft'))
        /\ response' = [message  |-> response_text,
                        metadata |-> Metadata(user_id, clock', message, response_text,
                                              Extracted(draft', created'))]
        /\ UNCHANGED parsed

\* a call of process_message that the language model answers
ProcessMessage ==
    /\ pc = "idle"
    /\ clock \in Instants
    /\ Len(appointments) < MaxAppointments
    /\ \E message \in ChatTexts, response_text \in Replies, user_id \in UserIds :
        process_message(message, user_id, response_text)
    /\ pc' = "done"
    /\ UNCHANGED chatVars

\* a call of store_message(session_id, message_type, content)
StoreMessage ==
    /\ pc = "idle"
    /\ \E s \in Sessions, content \in Contents, db_ok \in BOOLEAN :
        /\ Len(WhereSession(chat_messages, s)) < RowBound(s)
        /\ chat_messages' = store_message(chat_messages, s, NextType(chat_messages, s),
                                          content, db_ok)
    /\ UNCHANGED <<clock, appointments, user_message, bot_response, reads, parsed,
                   draft, created, response, pc, chat_sessions, session_id,
                   history, updated, reply>>

\* a call of get_conversation_history(session_id)
GetConversationHistory ==
    /\ pc = "idle"
    /\ \E s \in Sessions, db_ok \in BOOLEAN :
        /\ session_id' = s
        /\ history' = get_conversation_history(chat_messages, s, db_ok)
    /\ pc' = "done"
    /\ UNCHANGED <<clock, appointments, user_message, bot_response, reads, parsed,
                   draft, created, response, chat_messages, chat_sessions,
                   updated, reply>>

\* the /chat handler, lines 52-93, on a request with every required field:
\* history, process_message, store_message, and update_session_appointment
\* when line 86 finds appointment_created in the response
Chat ==
    /\ pc = "idle"
    /\ clock \in Instants
    /\ Len(appointments) < MaxAppointments
    /\ Len(chat_messages) < MaxTurns
    /\ \E data \in ChatRequests, history_ok \in BOOLEAN, store_ok \in BOOLEAN,
          update_ok \in BOOLEAN :
        /\ AllPresent(data)
        /\ session_id' = data.sessionId
        /\ history' = get_conversation_history(chat_messages, data.sessionId, history_ok)
        /\ \/ \E response_text \in Replies :
                process_message(data.message, data.userId, response_text)
           \/ process_message_fails(data.message)
        /\ chat_messages' = store_message(chat_messages, data.sessionId, "bot",
                                          response'.message, store_ok)
        /\ updated' = IF GetFlag(response', "appointment_created")
                      THEN [session_id     |-> data.sessionId,
                            appointment_id |-> Get(response', "appointment_id")]
                      ELSE NotCalled
        /\ chat_sessions' = IF updated' = NotCalled THEN chat_sessions
                            ELSE update_session_appointment(chat_sessions, data.sessionId,
                                                            updated'.appointment_id, update_ok)
        /\ reply' = [status |-> 200,
                     body   |-> [message    |-> response'.message,
                                 metadata   |-> response'.metadata,
                                 session_id |-> data.sessionId]]
    /\ pc' = "done"

\* the /chat handler on a request without a body or without a required field:
\* lines 58-59 and 66-67 answer 400
ChatBadRequest ==
    /\ pc = "idle"
    /\ \E data \in ChatRequests \cup {None} :
        /\ IF data = None THEN TRUE ELSE ~AllPresent(data)
        /\ reply' = [status |-> 400,
                     body   |-> [error |-> IF data = None THEN "No data provided"
                                           ELSE "Missing required fields"]]
    /\ pc' = "done"
    /\ UNCHANGED <<clock, appointments, user_message, bot_response, reads, parsed,
                   draft, created, response, chat_messages, chat_sessions,
                   session_id, history, updated>>

Next == Tick \/ Return \/ ProcessMessage \/ ProcessMessageFails

Spec == Init /\ [][Next]_vars

NextParse == Tick \/ Return \/ ParseDateTime

SpecParse == Init /\ [][NextParse]_vars

NextHistory == Return \/ StoreMessage \/ GetConversationHistory

SpecHistory == Init /\ [][NextHistory]_vars

NextChat == Tick \/ Return \/ Chat \/ ChatBadRequest

SpecChat == Init /\ [][NextChat]_vars

------------------------------------------------------------------------------
(* Properties of _parse_date_time, checked under SpecParse *)

\* a call of _parse_date_time has returned or raised
Parsed == pc = "done" /\ parsed # NotCalled

\* the clock stood still during the call: one reference now
OneNow == \A i \in 1..Len(reads) : reads[i] = reads[1]

\* the timestamp returned, as a datetime
Value == [day |-> parsed.value.date, hour |-> parsed.value.T[1], minute |-> parsed.value.T[2]]

\* C1: every call of _parse_date_time returns a timestamp and raises no error,
\* whatever number the clock-time pattern of the text carries.
C1_NeverFails == Parsed => (~parsed.raised /\ parsed.value # None)

\* C2: the base date follows the priority today > tomorrow > weekday name >
\* default: with "today" in the text it is the date of now, with "tomorrow"
\* and no "today" it is one day after now, also when a weekday name is in the
\* text as well; with none of the three it is one day after now.
C2_BaseDatePriority ==
    (Parsed /\ OneNow) =>
        LET ml == Lower(user_message)
        IN  /\ Contains(ml, "today") => parsed.base.day = reads[1].day
            /\ (Contains(ml, "tomorrow") /\ ~Contains(ml, "today"))
                   => parsed.base.day = reads[1].day + 1
            /\ (~Contains(ml, "tomorrow") /\ ~Contains(ml, "today") /\ MatchingDays(ml) = {})
                   => parsed.base.day = reads[1].day + 1

\* C3 as stated: whenever the text contains the name of now's weekday, whatever
\* other weekday names it contains, the base date is 7 days after now.
C3_AnyNameOfToday ==
    (Parsed /\ OneNow) =>
        ((weekday(reads[1]) + 1) \in MatchingDays(Lower(user_message))
             => parsed.base.day = reads[1].day + 7)

\* C3 amended: when the text contains a weekday name, the base date lies 1 to 7
\* days after the date of the clock reading it is added to (line 239), and it
\* is 7 days after when the first name of Monday..Sunday that the text contains
\* is the weekday of the reading of line 236; a returned timestamp has that date.
C3_FirstNameOfToday ==
    (Parsed /\ MatchingDays(Lower(user_message)) # {}) =>
        LET n == Len(reads)
            k == parsed.base.day - reads[n].day
        IN  /\ k \in 1..7
            /\ Min(MatchingDays(Lower(user_message))) - 1 = weekday(reads[n - 1]) => k = 7
            /\ OneNow => weekday(parsed.base) = Min(MatchingDays(Lower(user_message))) - 1
            /\ ~parsed.raised => parsed.value.date = parsed.base.day

\* C3 witness: two weekday names, the first in Monday..Sunday order being
\* today's, resolved a week ahead
C3_Witness ==
    /\ Parsed
    /\ Cardinality(MatchingDays(Lower(user_message))) = 2
    /\ Min(MatchingDays(Lower(user_message))) - 1 = weekday(reads[1])
    /\ ~parsed.raised
    /\ parsed.value.date = reads[1].day + 7

\* C4 as stated: the timestamp returned is never earlier than now.
C4_NeverInPast ==
    (Parsed /\ ~parsed.raised) =>
        \A i \in 1..Len(reads) : Minutes(Value) >= Minutes(reads[i])

\* C4 amended: the timestamp returned is not earlier than any clock reading of
\* the call when the text contains a weekday name or does not contain "today";
\* with "today" and no weekday name it lies on the date of the reading of
\* line 221, at 10:00 or the time the text gives, which may be past.
C4_NotInPastUnlessToday ==
    (Parsed /\ ~parsed.raised) =>
        LET ml == Lower(user_message)
        IN  IF MatchingDays(ml) # {} \/ ~Contains(ml, "today")
            THEN \A i \in 1..Len(reads) : Minutes(Value) >= Minutes(reads[i])
            ELSE Value.day = reads[2].day

\* C4 witness: no "today", no weekday name and no time in a text parsed in the
\* afternoon: the default, tomorrow at 10:00
C4_Witness ==
    /\ Parsed
    /\ ~parsed.raised
    /\ parsed.time = None
    /\ ~Contains(Lower(user_message), "today")
    /\ MatchingDays(Lower(user_message)) = {}
    /\ reads[1].hour = 15
    /\ Value = [day |-> reads[1].day + 1, hour |-> 10, minute |-> 0]

\* C7: with "morning", "afternoon" or "evening" in the text (the first of these,
\* in that order) the call returns 09:00, 14:00 or 18:00 on the base date,
\* whatever clock time the text also contains.
C7_KeywordOverrides ==
    Parsed =>
        LET ml == Lower(user_message)
            at(h) == /\ ~parsed.raised
                     /\ parsed.value = [date |-> parsed.base.day, T |-> <<h, 0, 0>>]
        IN  /\ Contains(ml, "morning") => at(9)
            /\ (Contains(ml, "afternoon") /\ ~Contains(ml, "morning")) => at(14)
            /\ (Contains(ml, "evening") /\ ~Contains(ml, "afternoon") /\ ~Contains(ml, "morning"))
                   => at(18)

\* the groups of the first of H:MM[am/pm], H am/pm, H o'clock found anywhere in
\* the text: hour and minute as written, and the am/pm word
C8_Written(ml) ==
    IF Search(ml, 1) # NoMatch
    THEN [h |-> ToInt(Search(ml, 1).groups[1]), m |-> ToInt(Search(ml, 1).groups[2]),
          ampm |-> Search(ml, 1).groups[3]]
    ELSE IF Search(ml, 2) # NoMatch
    THEN [h |-> ToInt(Search(ml, 2).groups[1]), m |-> 0, ampm |-> Search(ml, 2).groups[2]]
    ELSE [h |-> ToInt(Search(ml, 3).groups[1]), m |-> 0, ampm |-> ""]

\* C8: the clock time comes from the first of the patterns H:MM[am/pm], H am/pm,
\* H o'clock that matches anywhere in the text; 12pm gives 12, 12am gives 0, pm
\* adds 12 to the hours 1-11, an hour without am/pm is kept as written; the
\* minute is MM for H:MM and 0 otherwise; without a time-of-day word that is
\* the time of a returned timestamp.
C8_ClockTime ==
    Parsed =>
        LET ml == Lower(user_message)
            none == \A p \in 1..3 : Search(ml, p) = NoMatch
            w  == C8_Written(ml)
        IN  /\ none <=> parsed.time = None
            /\ ~none =>
                /\ parsed.time.minute = w.m
                /\ (w.ampm = "pm" /\ w.h = 12) => parsed.time.hour = 12
                /\ (w.ampm = "am" /\ w.h = 12) => parsed.time.hour = 0
                /\ (w.ampm = "pm" /\ w.h \in 1..11) => parsed.time.hour = w.h + 12
                /\ w.ampm = "" => parsed.time.hour = w.h
                /\ (~parsed.raised /\ ~AnyIn(<<"morning", "afternoon", "evening">>, ml))
                       => parsed.value.T = <<parsed.time.hour, parsed.time.minute, 0>>

\* C8 witness: an H am/pm occurs in the text before an H:MM, and the H:MM is
\* the time returned
C8_Witness ==
    /\ Parsed
    /\ Search(Lower(user_message), 1) # NoMatch
    /\ Search(Lower(user_message), 2) # NoMatch
    /\ SearchPos(Lower(user_message), 2) < SearchPos(Lower(user_message), 1)
    /\ ~parsed.raised
    /\ parsed.value.T = <<14, 30, 0>>

\* the clock read n times while it stands at c
Still(c, n) == [i \in 1..n |-> c]

\* C13: the timestamp extracted is a function of the text and of one reference
\* instant, the first reading of the clock: a call returns what the extractor
\* returns with the clock standing at that instant, whatever the clock does
\* during the call.
C13_OneReferenceInstant ==
    Parsed => parsed = _parse_date_time(user_message, Still(reads[1], Len(reads)))

------------------------------------------------------------------------------
(* Properties of the extraction pipeline, checked under Spec *)

\* process_message has returned a reply of the language model
Replied == pc = "done" /\ response # NotCalled /\ bot_response # ""

\* _parse_appointment_details returned a draft
Drafted == pc = "done" /\ draft \notin {NotCalled, None}

\* C5 as stated: a confirmation phrase in the reply alone makes the pipeline
\* go on to create an appointment, whatever the user text.
C5_BotConfirmsAlone ==
    (Replied /\ bot_confirms(bot_response) /\ ~has_details(user_message))
        => draft # NotCalled

\* C5 amended: for a user text without detail keywords and a reply with a
\* confirmation phrase, the details are parsed exactly when the user text holds
\* a scheduling keyword; then _create_appointment is called exactly when a draft
\* came back, and an appointment is reported exactly when it returned an id.
C5_BotConfirmsAfterGate ==
    (Replied /\ bot_confirms(bot_response) /\ ~has_details(user_message)) =>
        /\ draft # NotCalled <=> Gate(user_message)
        /\ created # NotCalled <=> draft \notin {NotCalled, None}
        /\ response.metadata.appointment_created <=> created \notin {NotCalled, None}

\* C5 witness: a scheduling keyword, no detail keyword, a confirming reply, and
\* an appointment created
C5_Witness ==
    /\ Replied
    /\ Gate(user_message)
    /\ ~has_details(user_message)
    /\ bot_confirms(bot_response)
    /\ response.metadata.appointment_created

\* C6: a call of process_message on a user text without scheduling keywords,
\* whatever the reply, parses no details, does not call _create_appointment,
\* inserts no row and reports no appointment.
C6_Gate ==
    [][(pc = "idle" /\ pc' = "done" /\ ~Gate(user_message')) =>
           /\ draft' = NotCalled
           /\ created' = NotCalled
           /\ appointments' = appointments
           /\ "appointment_data" \notin DOMAIN response'.metadata
           /\ "appointment_id" \notin DOMAIN response'.metadata
           /\ bot_response' # "" => ~response'.metadata.appointment_created]_vars

\* C6 witness: no scheduling keyword, but a detail keyword and a confirming
\* reply, and no appointment
C6_Witness ==
    /\ Replied
    /\ ~Gate(user_message)
    /\ has_details(user_message)
    /\ bot_confirms(bot_response)
    /\ ~response.metadata.appointment_created
    /\ created = NotCalled

\* the fixed title of each appointment type
C9_Label(type) ==
    CASE type = "medical"      -> "Medical Appointment"
      [] type = "consultation" -> "Consultation"
      [] type = "follow-up"    -> "Follow-up Appointment"
      [] type = "general"      -> "Appointment"

\* C9: the type of a draft is medical when the user text holds medical, doctor,
\* checkup or health; else consultation when it holds consultation or consult;
\* else follow-up when it holds follow or follow-up; else general; the title is
\* the type's fixed label; "I want to book a checkup" gives medical.
C9_TypePriority ==
    Drafted =>
        LET ml == Lower(user_message)
            medical == \E w \in {"medical", "doctor", "checkup", "health"} : Contains(ml, w)
            consult == \E w \in {"consultation", "consult"} : Contains(ml, w)
            follow  == \E w \in {"follow", "follow-up"} : Contains(ml, w)
        IN  /\ medical => draft.appointment_type = "medical"
            /\ (~medical /\ consult) => draft.appointment_type = "consultation"
            /\ (~medical /\ ~consult /\ follow) => draft.appointment_type = "follow-up"
            /\ (~medical /\ ~consult /\ ~follow) => draft.appointment_type = "general"
            /\ draft.title = C9_Label(draft.appointment_type)
            /\ user_message = "I want to book a checkup" => draft.appointment_type = "medical"

\* C9 witness: a medical word and a consultation word in one text, typed medical
C9_Witness ==
    /\ Drafted
    /\ Contains(Lower(user_message), "checkup")
    /\ Contains(Lower(user_message), "consultation")
    /\ draft.appointment_type = "medical"

\* C10: an appointment record in the reply's metadata was made only after the
\* scheduling keyword matched and has_details or bot_confirms held, and it is
\* complete: a type of the four, a duration of the five (60 when no duration
\* phrase is in the text), the type's title, the user text as description, no
\* location, no notes, and an appointment date.
C10_NoPartialDraft ==
    (Replied /\ response.metadata.appointment_created) =>
        LET a  == response.metadata.appointment_data
            ml == Lower(user_message)
        IN  /\ Gate(user_message)
            /\ has_details(user_message) \/ bot_confirms(bot_response)
            /\ a.appointment_type \in {"general", "medical", "consultation", "follow-up"}
            /\ a.duration_minutes \in {30, 45, 60, 90, 120}
            /\ (\A w \in {"30 minutes", "half hour", "45 minutes", "90 minutes", "1.5 hours",
                          "2 hours", "120 minutes"} : ~Contains(ml, w))
                   => a.duration_minutes = 60
            /\ a.title = C9_Label(a.appointment_type)
            /\ a.description = user_message
            /\ a.location = None
            /\ a.notes = None
            /\ a.appointment_date # None
            /\ DOMAIN a.appointment_date = {"date", "T"}

\* C10 witness: an appointment of 45 minutes returned for a text that gives
\* the duration
C10_Witness ==
    /\ Replied
    /\ response.metadata.appointment_created
    /\ Contains(Lower(user_message), "45 minutes")
    /\ response.metadata.appointment_data.duration_minutes = 45
    /\ response.metadata.appointment_data.id = Len(appointments)

\* C12: when the INSERT of _create_appointment fails for a draft, the call of
\* process_message still returns the assistant's reply unchanged as message,
\* with no error in the metadata, appointment_created false, no appointment_id
\* and no appointment_data, and the appointments table as it was.
C12_InsertFailureIsSilent ==
    [][(pc = "idle" /\ pc' = "done" /\ created' = None) =>
           /\ response'.message = bot_response'
           /\ "error" \notin DOMAIN response'.metadata
           /\ "appointment_created" \in DOMAIN response'.metadata
           /\ ~response'.metadata.appointment_created
           /\ "appointment_id" \notin DOMAIN response'.metadata
           /\ "appointment_data" \notin DOMAIN response'.metadata
           /\ appointments' = appointments]_vars

\* C12 witness: a draft was built, its INSERT failed, and the confirming reply
\* came back as the message
C12_Witness ==
    /\ Drafted
    /\ created = None
    /\ bot_confirms(bot_response)
    /\ response.message = bot_response
    /\ ~response.metadata.appointment_created

------------------------------------------------------------------------------
(* Properties of get_conversation_history, checked under SpecHistory *)

\* get_conversation_history has returned
Fetched == pc = "done" /\ session_id \in Sessions

\* the last n elements of a sequence
LastOf(rows, n) == SubSeq(rows, IF Len(rows) < n THEN 1 ELSE Len(rows) - n + 1, Len(rows))

\* C11: after any sequence of stored messages of a session, more than 20
\* included, get_conversation_history returns the latest 20 messages of the
\* session, the oldest of those first (or nothing, when the query failed).
C11_MostRecentTwenty ==
    Fetched =>
        \/ history = << >>
        \/ history = SelectColumns(LastOf(WhereSession(chat_messages, session_id), 20))

------------------------------------------------------------------------------
(* Properties of the /chat handler, checked under SpecChat *)

\* the /chat handler has answered 200
Answered == pc = "done" /\ reply # NotCalled /\ reply.status = 200

\* C14: when process_message created an appointment for the turn, the handler
\* has called update_session_appointment for the session with the
\* appointment's id before it answers; when none was created it has not.
C14_SessionUpdated ==
    Answered =>
        IF GetFlag(response.metadata, "appointment_created")
        THEN /\ updated # NotCalled
             /\ updated.session_id = session_id
             /\ updated.appointment_id # None
             /\ updated.appointment_id = response.metadata.appointment_id
        ELSE updated = NotCalled

====
